---- MODULE Spec2Model ----
(***************************************************************************)
(* State-machine model of klink_indicator.c: the three-colour status LED   *)
(* of the keyboard.  Event listeners write slices of indicator_state, the  *)
(* periodic led_process_thread reads it every 20 ms tick and drives the    *)
(* LED through set_indicator_color, which caches the last applied mask.    *)
(***************************************************************************)
EXTENDS Integers, Sequences, FiniteSets, TLC

(***************************************************************************)
(* Bounds of the model.                                                    *)
(***************************************************************************)
\* Spec: sequencer ticks explored after boot, notifications delivered
MaxSteps == 64
MaxEvents == 2
\* SpecAnim: a run long enough for a whole announcement of 12 boundaries
AnimSteps == 210
AnimEvents == 1
\* longest run of consecutive colour-setter calls made by the direct caller
MaxCalls == 2
\* the announcement alone: ticks followed, and the latest tick count at
\* which the profile update is delivered
AnnounceSteps == 1030
AnnounceLatest == 64
\* the counter wrap: ticks followed from WrapStart, notifications delivered
WrapSteps == 100
WrapEvents == 1
\* the unlocked accesses: ticks followed from RaceStart, notifications
\* delivered (the one that started the announcement included)
RaceSteps == 48
RaceEvents == 2

(***************************************************************************)
(* Program constants.                                                      *)
(***************************************************************************)
\* BIT(1) of the HID indicator mask
CAPSLOCK_BIT == 2
\* values of indicator_state.connection
Idle == 0
Pairing == 1
Connected == 2
\* the keycode that re-announces the BLE status (0xAB)
AnnounceKey == 171

(***************************************************************************)
(* Inputs delivered by the collaborators.                                  *)
(***************************************************************************)
\* zmk_hid_indicators_get_current_profile(): none, caps, num+scroll, all
LockStates == {0, 2, 5, 7}
\* zmk_ble_active_profile_index(): the slots, the sentinel 3, out of range 4
ProfileIndexes == 0..4
\* keycodes: an ordinary key, 0xAB, and 0x1AB (same low byte as 0xAB)
Keycodes == {4, 171, 427}
\* state_of_charge values reported by the battery driver
BatteryLevels == {5, 9, 10, 50}

VARIABLES
    indicator_state,   \* struct indicator_state_t
    led_timer_steps,   \* static uint16_t of led_process_thread
    last_bits,         \* static uint8_t of set_indicator_color
    led,               \* physical on/off state of channels 0 (r), 1 (g), 2 (b)
    seq_pc,            \* led_process_thread: "running" or "returned"
    init_pc,           \* klink_indicator_init_thread: "pending" or "done"
    events,            \* notifications delivered so far
    op,                \* the operation that made the last step
    arg,               \* the inputs that operation read
    mode,              \* branches of the sequencer entered in the last step
    calls,             \* masks passed to set_indicator_color in the last step
    hw,                \* per call of the last step, the hardware writes it made
    window,            \* the aligned 32-tick window in progress, as long as
                       \* every tick of it read Idle and battery < 10: the
                       \* ticks so far and the <<offset, mask>> they requested
    ticks,             \* iterations of the sequencer loop so far, unwrapped
    reported,          \* a battery notification has been delivered
    lowrun,            \* the consecutive ticks that selected the low-battery
                       \* branch (counted up to 16) and the mask shown when
                       \* the first of them began
    anim,              \* the announcement started by the last in-range
                       \* profile update, as long as no other notification
                       \* followed: its boundaries, their phases, the calls
                       \* that rendered the slot colour
    upd,               \* ble_active_profile_update in progress: the next
                       \* statement of it and the values it has read
    reg                \* values led_process_thread holds in registers

vars == <<indicator_state, led_timer_steps, last_bits, led, seq_pc, init_pc,
          events, op, arg, mode, calls, hw, window, ticks, reported, lowrun,
          anim, upd, reg>>

(***************************************************************************)
(* Bit arithmetic on non-negative integers.                                *)
(***************************************************************************)
Pow2(n) == IF n = 0 THEN 1 ELSE IF n = 1 THEN 2 ELSE IF n = 2 THEN 4
           ELSE IF n = 3 THEN 8 ELSE 16

\* (x >> pos) & 1
Bit(x, pos) == (x \div Pow2(pos)) % 2

U8(x) == x % 256
\* variant: the counter wraps one value early
U16_short(x) == x % 65535

U16(x) == x % 65536

NoArg == [keycode |-> 0, profile_index |-> 0, connected |-> FALSE,
          value |-> 0, addr_any |-> FALSE]

(***************************************************************************)
(* set_indicator_color: one-slot memoisation in front of the LED driver.   *)
(***************************************************************************)
\* variant: no memoisation, every call reaches the driver
set_indicator_color_always(bits, last) ==
    [writes |-> [pos \in 1..3 |->
                   [channel |-> pos - 1, on |-> Bit(bits, pos - 1) = 1]],
     last_bits |-> bits]

\* variant: only the channels whose bit changed are written
set_indicator_color_changed(bits, last) ==
    LET W(pos) == IF Bit(bits, pos) # Bit(last, pos)
                  THEN <<[channel |-> pos, on |-> Bit(bits, pos) = 1]>>
                  ELSE <<>>
    IN [writes |-> W(0) \o W(1) \o W(2), last_bits |-> bits]

\* the led_on / led_off calls of one invocation, in order, and the new cache
set_indicator_color(bits, last) ==
    IF bits # last
    THEN [writes |-> [pos \in 1..3 |->
                        [channel |-> pos - 1, on |-> Bit(bits, pos - 1) = 1]],
          last_bits |-> bits]
    ELSE [writes |-> <<>>, last_bits |-> last]

\* variant: the blue channel is not wired to the driver
RECURSIVE led_apply_no_blue(_, _)
led_apply_no_blue(l, writes) ==
    IF writes = <<>> THEN l
    ELSE led_apply_no_blue(
            IF Head(writes).channel = 2 THEN l
            ELSE [l EXCEPT ![Head(writes).channel] = Head(writes).on],
            Tail(writes))

\* the LED driver: led_on / led_off of one channel at a time
RECURSIVE led_apply(_, _)
led_apply(l, writes) ==
    IF writes = <<>> THEN l
    ELSE led_apply([l EXCEPT ![Head(writes).channel] = Head(writes).on],
                   Tail(writes))

\* consecutive calls of the setter: the final cache, LED state and the
\* writes of each call
RECURSIVE RunCalls(_, _, _)
RunCalls(masks, last, l) ==
    IF masks = <<>> THEN [last_bits |-> last, led |-> l, hw |-> <<>>]
    ELSE LET r == set_indicator_color(Head(masks), last)
             rest == RunCalls(Tail(masks), r.last_bits, led_apply(l, r.writes))
         IN [rest EXCEPT !.hw = <<r.writes>> \o rest.hw]

(***************************************************************************)
(* Event listeners.                                                        *)
(***************************************************************************)
get_lock_indicators(s, state) == [s EXCEPT !.keylock = U8(state)]

\* variant: the flash counts of the two branches exchanged
ble_active_profile_update_swapped(s, profile_index, connected) ==
    IF profile_index > 3 THEN s
    ELSE IF connected
         THEN [s EXCEPT !.active_device = profile_index,
                        !.connection = 2,
                        !.flash_times = 15 * 4]
         ELSE [s EXCEPT !.active_device = profile_index,
                        !.connection = 1,
                        !.flash_times = 3 * 4]

\* variant: the range guard off by one
ble_active_profile_update_wide(s, profile_index, connected) ==
    IF profile_index > 4 THEN s
    ELSE IF connected
         THEN [s EXCEPT !.active_device = profile_index,
                        !.connection = 2,
                        !.flash_times = 3 * 4]
         ELSE [s EXCEPT !.active_device = profile_index,
                        !.connection = 1,
                        !.flash_times = 15 * 4]

ble_active_profile_update(s, profile_index, connected) ==
    IF profile_index > 3 THEN s
    ELSE IF connected
         THEN [s EXCEPT !.active_device = profile_index,
                        !.connection = 2,
                        !.flash_times = 3 * 4]
         ELSE [s EXCEPT !.active_device = profile_index,
                        !.connection = 1,
                        !.flash_times = 15 * 4]

\* variant: the keycode compared on its low byte
zmk_handle_keycode_user_low_byte(s, key, profile_index, connected) ==
    IF key % 256 = AnnounceKey
    THEN ble_active_profile_update(s, profile_index, connected)
    ELSE s

zmk_handle_keycode_user(s, key, profile_index, connected) ==
    IF key = AnnounceKey
    THEN ble_active_profile_update(s, profile_index, connected)
    ELSE s

battery_update(s, state_of_charge) == [s EXCEPT !.battery = U8(state_of_charge)]

startup(s) == [s EXCEPT !.connection = 1, !.battery = 111]

(***************************************************************************)
(* led_process_thread: one iteration of the loop.                          *)
(***************************************************************************)
profile_color_bits == <<3, 6, 5>>

ble_branch(s) == s.connection > 0

\* variant: the threshold included
battery_branch_inclusive(s) == s.battery <= 10

battery_branch(s) == s.battery < 10

on_boundary(steps) == steps % 16 = 15

phase(steps) == (steps \div 16) % 4

\* variant: phase 2 blanks the LED whatever the connection
ble_phase_calls_blink(s, steps, addr_any) ==
    LET color_bits == profile_color_bits[s.active_device + 1]
    IN CASE phase(steps) = 0 -> <<0>>
         [] phase(steps) = 1 -> <<color_bits>>
         [] phase(steps) = 2 -> <<0>>
         [] phase(steps) = 3 -> IF s.connection # 2
                                THEN IF addr_any THEN <<1>> ELSE <<4>>
                                ELSE <<>>

\* the switch on the phase: the masks passed to the setter
ble_phase_calls(s, steps, addr_any) ==
    LET color_bits == profile_color_bits[s.active_device + 1]
    IN CASE phase(steps) = 0 -> <<0>>
         [] phase(steps) = 1 -> <<color_bits>>
         [] phase(steps) = 2 -> IF s.connection # 2 THEN <<0>> ELSE <<>>
         [] phase(steps) = 3 -> IF s.connection # 2
                                THEN IF addr_any THEN <<1>> ELSE <<4>>
                                ELSE <<>>

\* variant: the announcement is never ended
ble_boundary_no_exit(s, steps, addr_any) ==
    LET s1 == [s EXCEPT !.flash_times = U8(s.flash_times - 1)]
    IN [state |-> s1, calls |-> ble_phase_calls(s1, steps, addr_any),
        returned |-> FALSE, mode |-> {"ble"},
        asked |-> phase(steps) = 3 /\ s1.connection # 2]

\* variant: the announcement is ended one boundary early
ble_boundary_early_exit(s, steps, addr_any) ==
    LET s1 == [s EXCEPT !.flash_times = U8(s.flash_times - 1)]
        s2 == IF s1.flash_times <= 1 THEN [s1 EXCEPT !.connection = 0] ELSE s1
    IN [state |-> s2, calls |-> ble_phase_calls(s1, steps, addr_any),
        returned |-> FALSE, mode |-> {"ble"},
        asked |-> phase(steps) = 3 /\ s1.connection # 2]

\* the 16-tick boundary of the BLE branch
ble_boundary(s, steps, addr_any) ==
    LET s1 == [s EXCEPT !.flash_times = U8(s.flash_times - 1)]
        s2 == IF s1.flash_times = 0 THEN [s1 EXCEPT !.connection = 0] ELSE s1
    IN [state |-> s2, calls |-> ble_phase_calls(s1, steps, addr_any),
        returned |-> FALSE, mode |-> {"ble"},
        asked |-> phase(steps) = 3 /\ s1.connection # 2]

\* variant: red at the start of the 32-tick window
battery_calls_at_zero(steps) ==
    IF steps % 32 = 0 THEN <<1>>
    ELSE IF steps % 32 = 31 THEN <<0>>
    ELSE <<>>

\* variant: the LED is switched off at offset 31 and never lit
battery_calls_off_only(steps) ==
    IF steps % 32 = 31 THEN <<0>>
    ELSE <<>>

battery_calls(steps) ==
    IF steps % 32 = 15 THEN <<1>>
    ELSE IF steps % 32 = 31 THEN <<0>>
    ELSE <<>>

\* variant: any lock bit lights the LED
lock_calls_any_bit(s) ==
    IF s.keylock # 0 THEN <<5>> ELSE <<0>>

lock_calls(s) ==
    IF (s.keylock \div CAPSLOCK_BIT) % 2 = 1 THEN <<5>> ELSE <<0>>

\* variant: an unusable slot skips the rendering and the loop goes on
loop_body_continue(s, steps, addr_any) ==
    IF ble_branch(s)
    THEN IF s.active_device >= 3
         THEN [state |-> s, calls |-> <<>>, returned |-> FALSE, mode |-> {"ble"},
               asked |-> FALSE]
         ELSE IF on_boundary(steps)
              THEN ble_boundary(s, steps, addr_any)
              ELSE [state |-> s, calls |-> <<>>, returned |-> FALSE,
                    mode |-> {"ble"}, asked |-> FALSE]
    ELSE IF battery_branch(s)
         THEN [state |-> s, calls |-> battery_calls(steps), returned |-> FALSE,
               mode |-> {"battery"}, asked |-> FALSE]
         ELSE [state |-> s, calls |-> lock_calls(s), returned |-> FALSE,
               mode |-> {"lock"}, asked |-> FALSE]

loop_body(s, steps, addr_any) ==
    IF ble_branch(s)
    THEN IF s.active_device >= 3
         THEN [state |-> s, calls |-> <<>>, returned |-> TRUE, mode |-> {"ble"},
               asked |-> FALSE]
         ELSE IF on_boundary(steps)
              THEN ble_boundary(s, steps, addr_any)
              ELSE [state |-> s, calls |-> <<>>, returned |-> FALSE,
                    mode |-> {"ble"}, asked |-> FALSE]
    ELSE IF battery_branch(s)
         THEN [state |-> s, calls |-> battery_calls(steps), returned |-> FALSE,
               mode |-> {"battery"}, asked |-> FALSE]
         ELSE [state |-> s, calls |-> lock_calls(s), returned |-> FALSE,
               mode |-> {"lock"}, asked |-> FALSE]

(***************************************************************************)
(* History kept beside the program state.                                  *)
(***************************************************************************)
NoAnim == [live |-> FALSE, len |-> 0, run |-> 0, ph |-> [p \in 0..3 |-> 0],
           slot |-> 0, done |-> FALSE]

NoRun == [n |-> 0, from |-> 0]

NoUpd == [pc |-> "idle", connected |-> FALSE]

NoReg == [dev |-> 0, flash |-> 0, idx |-> 0, color_bits |-> 0]

\* the announcement after a step of handler name that read inputs a
Started(name, a, an) ==
    IF name = "init"
    THEN an
    ELSE IF /\ name = "ble" \/ (name = "keycode" /\ a.keycode = AnnounceKey)
            /\ a.profile_index < 3
         THEN [NoAnim EXCEPT !.live = TRUE,
                             !.len = IF a.connected THEN 12 ELSE 60]
         ELSE NoAnim

Count(masks, m) == Cardinality({k \in 1..Len(masks) : masks[k] = m})

\* the announcement after a tick that read state s at counter value steps
\* and produced r
Beat(an, s, steps, r) ==
    IF an.live /\ ~an.done /\ on_boundary(steps)
    THEN [an EXCEPT !.run = @ + 1,
                    !.ph[phase(steps)] = @ + 1,
                    !.slot = @ + (IF s.active_device < 3
                                  THEN Count(r.calls,
                                         profile_color_bits[s.active_device + 1])
                                  ELSE 0),
                    !.done = (r.state.connection = Idle)]
    ELSE an

\* the run of low-battery ticks after a tick that selected branches m while
\* the mask shown was last
Streak(run, m, last) ==
    IF m = {"battery"}
    THEN IF run.n = 0
         THEN [n |-> 1, from |-> last]
         ELSE [run EXCEPT !.n = IF @ < 16 THEN @ + 1 ELSE 16]
    ELSE NoRun

(***************************************************************************)
(* The state after construction: zero-initialised statics, LEDs off.       *)
(***************************************************************************)
Init ==
    /\ indicator_state = [keylock |-> 0, connection |-> 0, active_device |-> 0,
                          battery |-> 0, flash_times |-> 0]
    /\ led_timer_steps = 0
    /\ last_bits = 0
    /\ led = [c \in 0..2 |-> FALSE]
    /\ seq_pc = "running"
    /\ init_pc = "pending"
    /\ events = 0
    /\ op = "boot"
    /\ arg = NoArg
    /\ mode = {}
    /\ calls = <<>>
    /\ hw = <<>>
    /\ window = [n |-> 0, reqs |-> <<>>]
    /\ ticks = 0
    /\ reported = FALSE
    /\ lowrun = NoRun
    /\ anim = NoAnim
    /\ upd = NoUpd
    /\ reg = NoReg

\* a step of a listener or of the startup task: it renders nothing
Handler(name, a, s) ==
    /\ indicator_state' = s
    /\ op' = name
    /\ arg' = a
    /\ mode' = {}
    /\ calls' = <<>>
    /\ hw' = <<>>
    /\ reported' = (reported \/ name = "battery")
    /\ anim' = Started(name, a, anim)
    /\ UNCHANGED <<led_timer_steps, last_bits, led, seq_pc, window, ticks,
                   lowrun, upd, reg>>

\* a notification delivered by the event bus to a listener
Listener(name, a, s) ==
    /\ events' = events + 1
    /\ Handler(name, a, s)
    /\ UNCHANGED init_pc

hid_indicators_status_update_cb(maxEvents) ==
    \E state \in LockStates :
        /\ events < maxEvents
        /\ Listener("hid", [NoArg EXCEPT !.value = state],
                    get_lock_indicators(indicator_state, state))

ble_active_profile_update_cb(maxEvents) ==
    \E profile_index \in ProfileIndexes, connected \in BOOLEAN :
        /\ events < maxEvents
        /\ Listener("ble",
                    [NoArg EXCEPT !.profile_index = profile_index,
                                  !.connected = connected],
                    ble_active_profile_update(indicator_state, profile_index,
                                              connected))

\* the BLE stack's live values are recorded with the keycode that reads them
keycode_user_listener(maxEvents) ==
    \E key \in Keycodes, profile_index \in ProfileIndexes, connected \in BOOLEAN :
        /\ events < maxEvents
        /\ key # AnnounceKey => profile_index = 0 /\ ~connected
        /\ Listener("keycode",
                    [NoArg EXCEPT !.keycode = key,
                                  !.profile_index = profile_index,
                                  !.connected = connected],
                    zmk_handle_keycode_user(indicator_state, key, profile_index,
                                            connected))

led_battery_listener_cb(maxEvents) ==
    \E state_of_charge \in BatteryLevels :
        /\ events < maxEvents
        /\ Listener("battery", [NoArg EXCEPT !.value = state_of_charge],
                    battery_update(indicator_state, state_of_charge))

klink_indicator_init_thread ==
    /\ init_pc = "pending"
    /\ init_pc' = "done"
    /\ Handler("init", NoArg, startup(indicator_state))
    /\ UNCHANGED events

\* the window after a tick that read state s at counter value steps and
\* passed masks to the setter: it restarts at offset 0, grows while the
\* ticks read Idle and battery < 10, and is dropped otherwise
Observe(w, s, steps, masks) ==
    LET o == steps % 32
    IN IF s.connection = 0 /\ s.battery < 10 /\ (o = 0 \/ w.n = o)
       THEN [n |-> o + 1,
             reqs |-> (IF o = 0 THEN <<>> ELSE w.reqs)
                      \o [k \in 1..Len(masks) |-> <<o, masks[k]>>]]
       ELSE [n |-> 0, reqs |-> <<>>]

led_process_thread(maxSteps) ==
    /\ seq_pc = "running"
    /\ ticks < maxSteps
    /\ \E addr_any \in BOOLEAN :
        LET steps == U16(led_timer_steps + 1)
            r == loop_body(indicator_state, steps, addr_any)
            out == RunCalls(r.calls, last_bits, led)
        IN /\ led_timer_steps' = steps
           /\ indicator_state' = r.state
           /\ seq_pc' = IF r.returned THEN "returned" ELSE "running"
           /\ last_bits' = out.last_bits
           /\ led' = out.led
           /\ op' = "tick"
           /\ arg' = [NoArg EXCEPT !.addr_any = addr_any /\ r.asked]
           /\ mode' = r.mode
           /\ calls' = r.calls
           /\ hw' = out.hw
           /\ window' = Observe(window, indicator_state, steps, r.calls)
           /\ lowrun' = Streak(lowrun, r.mode, last_bits)
           /\ anim' = Beat(anim, indicator_state, steps, r)
    /\ ticks' = ticks + 1
    /\ UNCHANGED <<init_pc, events, reported, upd, reg>>

\* a caller of set_indicator_color alone: up to MaxCalls calls in a row
MaskRuns == UNION {[1..n -> 0..7] : n \in 1..MaxCalls}

direct_caller ==
    \E masks \in MaskRuns :
        LET out == RunCalls(masks, last_bits, led)
        IN /\ last_bits' = out.last_bits
           /\ led' = out.led
           /\ op' = "set"
           /\ arg' = NoArg
           /\ mode' = {}
           /\ calls' = masks
           /\ hw' = out.hw
           /\ UNCHANGED <<indicator_state, led_timer_steps, seq_pc, init_pc,
                          events, window, ticks, reported, lowrun, anim,
                          upd, reg>>

Next ==
    \/ led_process_thread(MaxSteps)
    \/ klink_indicator_init_thread
    \/ hid_indicators_status_update_cb(MaxEvents)
    \/ ble_active_profile_update_cb(MaxEvents)
    \/ keycode_user_listener(MaxEvents)
    \/ led_battery_listener_cb(MaxEvents)

\* the firmware from boot: both threads and the four listeners
Spec == Init /\ [][Next]_vars

NextAnim ==
    \/ led_process_thread(AnimSteps)
    \/ klink_indicator_init_thread
    \/ hid_indicators_status_update_cb(AnimEvents)
    \/ ble_active_profile_update_cb(AnimEvents)
    \/ keycode_user_listener(AnimEvents)
    \/ led_battery_listener_cb(AnimEvents)

\* the same firmware followed through a whole announcement
SpecAnim == Init /\ [][NextAnim]_vars

\* set_indicator_color exercised on its own, from its state at boot
SpecSetter == Init /\ [][direct_caller]_vars

\* a profile change notified during the first ticks after boot
ble_active_profile_update_early(latest) ==
    /\ ticks < latest
    /\ ble_active_profile_update_cb(1)

NextAnnounce ==
    \/ led_process_thread(AnnounceSteps)
    \/ klink_indicator_init_thread
    \/ ble_active_profile_update_early(AnnounceLatest)

\* the firmware from boot with one profile notification and no other
\* event, followed until a Pairing announcement has ended
SpecAnnounce == Init /\ [][NextAnnounce]_vars

\* a tick count shortly before the 16-bit counter wraps: 1023 cycles of 64
WrapStart == 65472

\* the firmware left alone since boot, WrapStart ticks later: the startup
\* task has run, the boot animation has ended and the lock branch has shown
\* "off" on every tick since
InitWrap ==
    /\ indicator_state = [keylock |-> 0, connection |-> 0, active_device |-> 0,
                          battery |-> 111, flash_times |-> 0]
    /\ led_timer_steps = WrapStart
    /\ last_bits = 0
    /\ led = [c \in 0..2 |-> FALSE]
    /\ seq_pc = "running"
    /\ init_pc = "done"
    /\ events = 0
    /\ op = "tick"
    /\ arg = NoArg
    /\ mode = {"lock"}
    /\ calls = <<0>>
    /\ hw = << <<>> >>
    /\ window = [n |-> 0, reqs |-> <<>>]
    /\ ticks = WrapStart
    /\ reported = FALSE
    /\ lowrun = NoRun
    /\ anim = NoAnim
    /\ upd = NoUpd
    /\ reg = NoReg

NextWrap ==
    \/ led_process_thread(WrapStart + WrapSteps)
    \/ hid_indicators_status_update_cb(WrapEvents)
    \/ ble_active_profile_update_cb(WrapEvents)
    \/ keycode_user_listener(WrapEvents)
    \/ led_battery_listener_cb(WrapEvents)

\* the sequencer and the listeners while the tick counter wraps
SpecWrap == InitWrap /\ [][NextWrap]_vars

(***************************************************************************)
(* The BLE branch and the profile update statement by statement.  Nothing  *)
(* locks indicator_state, so the statements of the two may interleave in   *)
(* any order and each access reads what memory holds at that moment.       *)
(***************************************************************************)
\* what a read past the end of profile_color_bits may return
OobBytes == {0, 7, 255}

\* a statement that calls no setter
Statement(name) ==
    /\ op' = name
    /\ arg' = NoArg
    /\ calls' = <<>>
    /\ hw' = <<>>
    /\ UNCHANGED <<last_bits, led, init_pc, window, reported, lowrun, anim>>

\* k_sleep, led_timer_steps++ and the test of connection; the two other
\* branches run to the end of the iteration
seq_enter(maxSteps) ==
    /\ seq_pc = "running"
    /\ ticks < maxSteps
    /\ LET steps == U16(led_timer_steps + 1)
           r == loop_body(indicator_state, steps, FALSE)
           out == RunCalls(r.calls, last_bits, led)
       IN /\ led_timer_steps' = steps
          /\ ticks' = ticks + 1
          /\ op' = "enter"
          /\ arg' = NoArg
          /\ mode' = r.mode
          /\ IF ble_branch(indicator_state)
             THEN /\ seq_pc' = "check"
                  /\ calls' = <<>>
                  /\ hw' = <<>>
                  /\ UNCHANGED <<last_bits, led>>
             ELSE /\ seq_pc' = "running"
                  /\ calls' = r.calls
                  /\ hw' = out.hw
                  /\ last_bits' = out.last_bits
                  /\ led' = out.led
    /\ UNCHANGED <<indicator_state, init_pc, events, window, reported, lowrun,
                   anim, upd, reg>>

\* if (active_device >= 3) return; if ((led_timer_steps & 0xf) == 0xf)
seq_check ==
    /\ seq_pc = "check"
    /\ reg' = [reg EXCEPT !.dev = indicator_state.active_device]
    /\ seq_pc' = IF indicator_state.active_device >= 3 THEN "returned"
                 ELSE IF on_boundary(led_timer_steps) THEN "load"
                 ELSE "running"
    /\ Statement("check")
    /\ UNCHANGED <<indicator_state, led_timer_steps, ticks, events, mode, upd>>

\* flash_times--: the load
seq_load ==
    /\ seq_pc = "load"
    /\ reg' = [reg EXCEPT !.flash = indicator_state.flash_times]
    /\ seq_pc' = "store"
    /\ Statement("load")
    /\ UNCHANGED <<indicator_state, led_timer_steps, ticks, events, mode, upd>>

\* flash_times--: the store
seq_store ==
    /\ seq_pc = "store"
    /\ indicator_state' =
          [indicator_state EXCEPT !.flash_times = U8(reg.flash - 1)]
    /\ seq_pc' = "palette"
    /\ Statement("store")
    /\ UNCHANGED <<led_timer_steps, ticks, events, mode, upd, reg>>

\* color_bits = profile_color_bits[active_device]: the index is the value
\* in memory or the one the range check loaded, as the build decides
seq_palette ==
    /\ seq_pc = "palette"
    /\ \E idx \in {indicator_state.active_device, reg.dev} :
         \E color_bits \in IF idx < 3 THEN {profile_color_bits[idx + 1]}
                                      ELSE OobBytes :
            reg' = [reg EXCEPT !.idx = idx, !.color_bits = color_bits]
    /\ seq_pc' = "switch"
    /\ Statement("palette")
    /\ UNCHANGED <<indicator_state, led_timer_steps, ticks, events, mode, upd>>

\* the setter calls of the switch, with the colour read before it
switch_calls(s, color_bits, steps, addr_any) ==
    IF phase(steps) = 1
    THEN <<color_bits>>
    ELSE ble_phase_calls([s EXCEPT !.active_device = 0], steps, addr_any)

\* switch ((led_timer_steps >> 4) & 0x3)
seq_switch ==
    /\ seq_pc = "switch"
    /\ \E addr_any \in BOOLEAN :
         LET masks == switch_calls(indicator_state, reg.color_bits,
                                   led_timer_steps, addr_any)
             out == RunCalls(masks, last_bits, led)
         IN /\ calls' = masks
            /\ hw' = out.hw
            /\ last_bits' = out.last_bits
            /\ led' = out.led
    /\ seq_pc' = "exit"
    /\ op' = "switch"
    /\ arg' = NoArg
    /\ UNCHANGED <<indicator_state, led_timer_steps, ticks, events, mode,
                   init_pc, window, reported, lowrun, anim, upd, reg>>

\* if (flash_times == 0) connection = 0
seq_exit ==
    /\ seq_pc = "exit"
    /\ indicator_state' = IF indicator_state.flash_times = 0
                          THEN [indicator_state EXCEPT !.connection = 0]
                          ELSE indicator_state
    /\ seq_pc' = "running"
    /\ Statement("exit")
    /\ UNCHANGED <<led_timer_steps, ticks, events, mode, upd, reg>>

\* the update is called: the guard and active_device = index
upd_device(maxEvents) ==
    /\ upd.pc = "idle"
    /\ events < maxEvents
    /\ events' = events + 1
    /\ \E profile_index \in ProfileIndexes :
         IF profile_index > 3
         THEN /\ UNCHANGED indicator_state
              /\ upd' = NoUpd
         ELSE /\ indicator_state' =
                    [indicator_state EXCEPT !.active_device = profile_index]
              /\ upd' = [NoUpd EXCEPT !.pc = "connection"]
    /\ Statement("device")
    /\ UNCHANGED <<led_timer_steps, ticks, seq_pc, mode, reg>>

\* connection = 2 or connection = 1
upd_connection ==
    /\ upd.pc = "connection"
    /\ \E connected \in BOOLEAN :
         /\ indicator_state' =
               [indicator_state EXCEPT !.connection = IF connected THEN 2 ELSE 1]
         /\ upd' = [pc |-> "flash", connected |-> connected]
    /\ Statement("connection")
    /\ UNCHANGED <<led_timer_steps, ticks, seq_pc, mode, events, reg>>

\* flash_times = 3*4 or 15*4, and the update returns
upd_flash ==
    /\ upd.pc = "flash"
    /\ indicator_state' =
          [indicator_state EXCEPT !.flash_times = IF upd.connected THEN 3 * 4
                                                  ELSE 15 * 4]
    /\ upd' = NoUpd
    /\ Statement("flash")
    /\ UNCHANGED <<led_timer_steps, ticks, seq_pc, mode, events, reg>>

\* an announcement of slot 0 as Connected, one boundary before its end
RaceStart == 176

InitRace ==
    /\ indicator_state = [keylock |-> 0, connection |-> 2, active_device |-> 0,
                          battery |-> 111, flash_times |-> 1]
    /\ led_timer_steps = RaceStart
    /\ last_bits = 3
    /\ led = [c \in 0..2 |-> c < 2]
    /\ seq_pc = "running"
    /\ init_pc = "done"
    /\ events = 1
    /\ op = "tick"
    /\ arg = NoArg
    /\ mode = {"ble"}
    /\ calls = <<>>
    /\ hw = <<>>
    /\ window = [n |-> 0, reqs |-> <<>>]
    /\ ticks = RaceStart
    /\ reported = FALSE
    /\ lowrun = NoRun
    /\ anim = [live |-> TRUE, len |-> 12, run |-> 11,
               ph |-> [p \in 0..3 |-> IF p = 3 THEN 2 ELSE 3],
               slot |-> 3, done |-> FALSE]
    /\ upd = NoUpd
    /\ reg = NoReg

NextRace ==
    \/ seq_enter(RaceStart + RaceSteps)
    \/ seq_check
    \/ seq_load
    \/ seq_store
    \/ seq_palette
    \/ seq_switch
    \/ seq_exit
    \/ upd_device(RaceEvents)
    \/ upd_connection
    \/ upd_flash

\* the sequencer and one more profile update, statement by statement
SpecRace == InitRace /\ [][NextRace]_vars

(***************************************************************************)
(* Properties.                                                             *)
(***************************************************************************)
\* the BLE profile update ran in the step: from its own listener or from
\* the keycode listener on 0xAB
UpdateRan(o, a) == o = "ble" \/ (o = "keycode" /\ a.keycode = 171)

\* the branch the priority rule selects for the state a tick reads
ExpectedMode(s) ==
    IF s.connection # Idle THEN "ble"
    ELSE IF s.battery < 10 THEN "battery"
    ELSE "lock"

\* C1: every sequencer tick enters exactly one branch, chosen by strict
\* priority over the state it reads: BLE if connection # Idle, else
\* low-battery if battery < 10, else lock; so with connection # Idle neither
\* the low-battery nor the lock branch runs, and with connection = Idle and
\* battery < 10 the lock branch does not run.
C1_StrictPriority ==
    [][op' = "tick" => mode' = {ExpectedMode(indicator_state)}]_vars

\* a boundary tick rendered in BLE mode while pairing with battery = 5
C1_Witness ==
    /\ op = "tick"
    /\ mode = {"ble"}
    /\ indicator_state.connection = Pairing
    /\ indicator_state.battery = 5
    /\ calls # <<>>

\* C2: a BLE profile update reporting index i <= 3 leaves active_device = i
\* and (Connected, 12) if the profile is connected, (Pairing, 60) otherwise;
\* keylock and battery keep their values, whatever the state before.
C2_UpdateInRange ==
    [][(UpdateRan(op', arg') /\ arg'.profile_index <= 3) =>
         indicator_state' =
            [indicator_state EXCEPT
                !.active_device = arg'.profile_index,
                !.connection = IF arg'.connected THEN Connected ELSE Pairing,
                !.flash_times = IF arg'.connected THEN 12 ELSE 60]]_vars

\* index 2 connected gave 2 / Connected / 12
C2_Witness ==
    /\ op = "ble"
    /\ arg.profile_index = 2
    /\ arg.connected
    /\ indicator_state.active_device = 2
    /\ indicator_state.connection = Connected
    /\ indicator_state.flash_times = 12

\* C3: a BLE profile update reporting an index above 3 changes no field of
\* indicator_state, whatever the connected flag.
C3_UpdateOutOfRange ==
    [][(UpdateRan(op', arg') /\ arg'.profile_index > 3) =>
         indicator_state' = indicator_state]_vars

\* index 4 reported as connected while an announcement was running
C3_Witness ==
    /\ op = "ble"
    /\ arg.profile_index = 4
    /\ arg.connected
    /\ indicator_state.connection = Pairing
    /\ indicator_state.flash_times = 60

\* the masks a boundary of the BLE animation passes to the colour setter,
\* for the state s the tick reads and the counter value steps it tests
ExpectedBleCalls(s, steps, addr_any) ==
    LET p == (steps \div 16) % 4
        palette == <<3, 6, 5>>
    IN IF steps % 16 # 15 THEN <<>>
       ELSE CASE p = 0 -> <<0>>
              [] p = 1 -> <<palette[s.active_device + 1]>>
              [] p = 2 -> IF s.connection # Connected THEN <<0>> ELSE <<>>
              [] p = 3 -> IF s.connection = Connected THEN <<>>
                          ELSE IF addr_any THEN <<1>> ELSE <<4>>

\* C4: in BLE mode with active_device < 3 every 16-tick boundary decrements
\* flash_times by one (as an 8-bit counter); at the boundary where it
\* becomes 0 the same tick renders the boundary's phase and then sets
\* connection to Idle, and at no other boundary; and a tick that reads
\* connection = Idle enters the low-battery or lock branch, never the BLE
\* branch, and leaves connection Idle.
C4_CountdownExit ==
    [][op' = "tick" =>
         /\ (/\ indicator_state.connection # Idle
             /\ indicator_state.active_device < 3
             /\ led_timer_steps' % 16 = 15) =>
                /\ indicator_state'.flash_times =
                      (indicator_state.flash_times + 255) % 256
                /\ indicator_state'.connection =
                      IF indicator_state'.flash_times = 0 THEN Idle
                      ELSE indicator_state.connection
                /\ calls' = ExpectedBleCalls(indicator_state, led_timer_steps',
                                             arg'.addr_any)
         /\ indicator_state.connection = Idle =>
                /\ mode' \in {{"battery"}, {"lock"}}
                /\ indicator_state'.connection = Idle]_vars

\* a tick in the lock or low-battery branch after an announcement for
\* slot 2 has run out
C4_Witness ==
    /\ op = "tick"
    /\ mode \in {{"battery"}, {"lock"}}
    /\ indicator_state.active_device = 2
    /\ indicator_state.connection = Idle
    /\ indicator_state.flash_times = 0
    /\ led_timer_steps > 191

\* C5: in BLE mode with active_device = s < 3 a boundary tick passes to the
\* colour setter: phase 0 off; phase 1 the slot colour of palette
\* {0b011, 0b110, 0b101}; phase 2 off unless Connected; phase 3, unless
\* Connected, red if the profile address is the unset address and blue
\* otherwise; when Connected phases 2 and 3 make no call.  A tick that is
\* not on a boundary makes no call, and without a call the colour stays.
C5_BlePhases ==
    [][(/\ op' = "tick"
        /\ indicator_state.connection # Idle
        /\ indicator_state.active_device < 3) =>
         /\ calls' = ExpectedBleCalls(indicator_state, led_timer_steps',
                                      arg'.addr_any)
         /\ calls' = <<>> => last_bits' = last_bits /\ led' = led
         /\ calls' # <<>> => last_bits' = calls'[1]]_vars

\* phase 3 of a pairing animation whose profile has an address: blue
C5_Witness ==
    /\ op = "tick"
    /\ mode = {"ble"}
    /\ led_timer_steps = 63
    /\ indicator_state.connection = Pairing
    /\ ~arg.addr_any
    /\ calls = <<4>>
    /\ last_bits = 4

\* C6: over an aligned 32-tick window (counter mod 32 running 0..31) all of
\* whose ticks read connection = Idle and battery < 10, the sequencer
\* requests a colour exactly twice: red (0b001) at offset 15 and off at
\* offset 31, and at no other offset.
C6_LowBatteryBlink ==
    window.n = 32 => window.reqs = << <<15, 1>>, <<31, 0>> >>

\* the end of the window 32..63 with battery = 5: the red LED goes off
C6_Witness ==
    /\ op = "tick"
    /\ window.n = 32
    /\ led_timer_steps = 63
    /\ indicator_state.battery = 5
    /\ calls = <<0>>
    /\ Len(hw[1]) = 3
    /\ led = [c \in 0..2 |-> FALSE]

\* C7: a tick that reads connection = Idle and battery >= 10, on a boundary
\* or not, leaves the colour 0b101 if bit 1 (caps lock) of keylock is set
\* and off otherwise, whatever bits 0 and 2 are.
C7_LockMode ==
    [][(/\ op' = "tick"
        /\ indicator_state.connection = Idle
        /\ indicator_state.battery >= 10) =>
         LET caps == (indicator_state.keylock \div 2) % 2 = 1
             color == IF caps THEN 5 ELSE 0
         IN /\ calls' = <<color>>
            /\ last_bits' = color
            /\ led' = [c \in 0..2 |-> caps /\ c # 1]]_vars

\* off a boundary, with battery = 50, the LED turns red+blue for caps lock
\* although num lock and scroll lock are set too
C7_Witness ==
    /\ op = "tick"
    /\ mode = {"lock"}
    /\ led_timer_steps % 16 # 15
    /\ indicator_state.battery = 50
    /\ indicator_state.keylock = 7
    /\ last_bits = 5
    /\ Len(hw[1]) = 3
    /\ led = [c \in 0..2 |-> c # 1]

\* C8: a keycode notification with keycode 0xAB leaves indicator_state as a
\* BLE active-profile-changed notification with the same live profile index
\* and connected flag would; any other keycode changes no field.
C8_KeycodeAnnounce ==
    [][op' = "keycode" =>
         indicator_state' =
            IF arg'.keycode = 171
            THEN ble_active_profile_update(indicator_state, arg'.profile_index,
                                           arg'.connected)
            ELSE indicator_state]_vars

\* 0xAB with profile 1 not connected started the pairing announcement
C8_Witness ==
    /\ op = "keycode"
    /\ arg.keycode = 171
    /\ arg.profile_index = 1
    /\ ~arg.connected
    /\ indicator_state.active_device = 1
    /\ indicator_state.connection = Pairing
    /\ indicator_state.flash_times = 60

\* In C9 and C10 the mask applied before call k of a step is the cached
\* mask for the first call and the mask of the call before for the others.

\* C9: a call of the colour setter with the mask applied before it makes no
\* led_on and no led_off on any channel; so the second of two calls with the
\* same mask writes nothing, and neither does a first call with mask 0
\* after boot, the cached mask starting at 0.
C9_SameMaskNoWrite ==
    [][\A k \in 1..Len(calls') :
         LET before == IF k = 1 THEN last_bits ELSE calls'[k - 1]
         IN calls'[k] = before => hw'[k] = <<>>]_vars

\* mask 0b011 twice in a row: three writes, then none
C9_Witness ==
    /\ op = "set"
    /\ calls = <<3, 3>>
    /\ Len(hw[1]) = 3
    /\ hw[2] = <<>>
    /\ last_bits = 3

\* C10 as claimed: a call with a mask m2 that differs from the mask m1
\* applied before it writes only channels whose bit differs between m1 and
\* m2, and none whose bit is the same.
C10_OnlyChangedChannels ==
    [][\A k \in 1..Len(calls') :
         LET before == IF k = 1 THEN last_bits ELSE calls'[k - 1]
         IN calls'[k] # before =>
              \A j \in 1..Len(hw'[k]) :
                 Bit(calls'[k], hw'[k][j].channel)
                    # Bit(before, hw'[k][j].channel)]_vars

\* C10 as amended: a call with a mask m2 that differs from the mask m1
\* applied before it writes each of the three channels exactly once, red,
\* green, blue in this order, on where the bit of m2 is set and off where
\* it is clear; the channels whose bit is the same in m1 and m2 are written
\* too.
C10_AllChannelsWritten ==
    [][\A k \in 1..Len(calls') :
         LET before == IF k = 1 THEN last_bits ELSE calls'[k - 1]
         IN calls'[k] # before =>
              hw'[k] = [pos \in 1..3 |->
                          [channel |-> pos - 1,
                           on |-> (calls'[k] \div Pow2(pos - 1)) % 2 = 1]]]_vars

\* 0b001 then 0b011: the second call writes red again, then green and blue
C10_Witness ==
    /\ op = "set"
    /\ calls = <<1, 3>>
    /\ hw[2] = <<[channel |-> 0, on |-> TRUE], [channel |-> 1, on |-> TRUE],
                 [channel |-> 2, on |-> FALSE]>>
    /\ led = [c \in 0..2 |-> c # 2]

\* C12: a tick that reads connection # Idle and active_device >= 3 ends the
\* sequencer thread without touching indicator_state or the LED; once the
\* thread has returned it takes no further step, so whatever notifications
\* arrive, no LED channel is switched and the cached mask stays.
C12_HaltIsFinal ==
    [][/\ (/\ op' = "tick"
           /\ indicator_state.connection # Idle
           /\ indicator_state.active_device >= 3) =>
              /\ seq_pc' = "returned"
              /\ indicator_state' = indicator_state
              /\ calls' = <<>>
       /\ seq_pc = "returned" =>
              /\ seq_pc' = "returned"
              /\ op' # "tick"
              /\ led_timer_steps' = led_timer_steps
              /\ led' = led
              /\ last_bits' = last_bits
              /\ hw' = <<>>]_vars

\* after the halt on slot 3 caps lock is reported and the LED stays dark
C12_Witness ==
    /\ seq_pc = "returned"
    /\ op = "hid"
    /\ indicator_state.active_device = 3
    /\ indicator_state.keylock = 2
    /\ led = [c \in 0..2 |-> FALSE]

\* C14 as claimed: whenever the sequencer changes flash_times, flash_times
\* was at least 1 before, so the 8-bit counter never wraps from 0 to 255.
C14_NoWrap ==
    [][(/\ op' = "tick"
        /\ indicator_state'.flash_times # indicator_state.flash_times) =>
         indicator_state.flash_times >= 1]_vars

\* C20: the physical state of channel i is bit i of the cached mask in every
\* state; a step that calls the colour setter leaves the cache at the mask of
\* its last call; and only a sequencer tick changes the LED or the cache.
C20_LedFollowsCache ==
    /\ \A c \in 0..2 : led[c] = ((last_bits \div Pow2(c)) % 2 = 1)
    /\ [][/\ \A c \in 0..2 : led'[c] = ((last_bits' \div Pow2(c)) % 2 = 1)
          /\ calls' # <<>> => last_bits' = calls'[Len(calls')]
          /\ calls' = <<>> => (last_bits' = last_bits /\ led' = led)
          /\ op' # "tick" => calls' = <<>>]_vars

\* the blue channel alone is lit: phase 3 of a pairing animation
C20_Witness ==
    /\ op = "tick"
    /\ last_bits = 4
    /\ led = [c \in 0..2 |-> c = 2]
    /\ calls = <<4>>

(***************************************************************************)
(* C11: from boot until the first battery notification is delivered, no    *)
(* sequencer tick selects the low-battery branch, the ticks before the     *)
(* startup task included.                                                  *)
(***************************************************************************)
C11_NoLowBatteryBeforeReport ==
    [][(op' = "tick" /\ ~reported) => "battery" \notin mode']_vars

(***************************************************************************)
(* C13: an announcement started by an in-range profile update and followed *)
(* by no other notification ends at its 12th (Connected) or 60th (Pairing) *)
(* boundary and not before; at its end each phase 0..3 has occurred 3 or   *)
(* 15 times and the slot colour has been rendered 3 or 15 times.           *)
(***************************************************************************)
C13_AnnouncementLength ==
    anim.live =>
        IF anim.done
        THEN /\ anim.run = anim.len
             /\ \A p \in 0..3 : anim.ph[p] * 4 = anim.len
             /\ anim.slot * 4 = anim.len
        ELSE /\ anim.run < anim.len
             /\ indicator_state.connection # Idle

C13_Witness ==
    /\ anim.live /\ anim.done /\ anim.len = 60 /\ anim.slot = 15
    /\ op = "tick" /\ led_timer_steps = 975
    /\ indicator_state.connection = Idle

(***************************************************************************)
(* C17: the startup task overwrites no value stored by a listener: a       *)
(* battery level already reported and a connection already Connected are   *)
(* the same after the startup task as before it.                           *)
(***************************************************************************)
C17_StartupKeepsReports ==
    [][op' = "init" =>
          /\ reported => indicator_state'.battery = indicator_state.battery
          /\ indicator_state.connection = Connected =>
                 indicator_state'.connection = Connected]_vars

(***************************************************************************)
(* C19: once the low-battery branch has been selected on 16 consecutive    *)
(* ticks, the mask shown is red (1) or off (0), whatever was shown when    *)
(* the run began, and it stays so for as long as the run goes on.          *)
(***************************************************************************)
C19_LowBatteryTakesOver ==
    lowrun.n = 16 => last_bits \in {0, 1}

C19_Witness ==
    /\ lowrun.n = 16 /\ lowrun.from = 5 /\ last_bits = 1
    /\ op = "tick" /\ mode = {"battery"}

(***************************************************************************)
(* C18: the wrap of the 16-bit tick counter leaves the timing as it is     *)
(* with a counter that never wraps: boundaries every 16 ticks, phases in   *)
(* the order 0, 1, 2, 3, low-battery offsets 15 and 31 of a 32-tick        *)
(* window, and so the same state change and the same setter calls on       *)
(* every tick.                                                             *)
(***************************************************************************)
C18_WrapKeepsTiming ==
    [][op' = "tick" =>
          /\ ticks' = ticks + 1
          /\ on_boundary(led_timer_steps') <=> (ticks' % 16 = 15)
          /\ phase(led_timer_steps') = (ticks' \div 16) % 4
          /\ led_timer_steps' % 32 = ticks' % 32
          /\ LET r == loop_body(indicator_state, ticks', arg'.addr_any)
             IN /\ indicator_state' = r.state
                /\ calls' = r.calls
                /\ mode' = r.mode]_vars

C18_Witness ==
    /\ ticks = 65551 /\ led_timer_steps = 15
    /\ op = "tick" /\ mode = {"battery"} /\ calls = <<1>>
    /\ window.n = 16

(***************************************************************************)
(* C15: every read of the 3-entry palette uses an index in 0..2, also when *)
(* a profile update stores active_device between the sequencer's range     *)
(* check and its palette read.                                             *)
(***************************************************************************)
C15_PaletteIndexInRange ==
    [][op' = "palette" => reg'.idx \in 0..2]_vars

(***************************************************************************)
(* C16: when an in-range profile update returns, connection is not Idle    *)
(* and (connection, flash_times) is (Connected, 12) or (Pairing, 60),      *)
(* however its three writes interleave with the sequencer's boundary step. *)
(***************************************************************************)
C16_UpdateReturnsAnnounced ==
    [][op' = "flash" =>
          /\ indicator_state'.connection # Idle
          /\ <<indicator_state'.connection, indicator_state'.flash_times>>
                \in {<<Connected, 12>>, <<Pairing, 60>>}]_vars

====
